---- MODULE Spec2Model ----
(***************************************************************************)
(* A model of putervision/grokjs: the Counter multiset, the Ngram table    *)
(* with its backoff prediction, and the LanguageModel built on them.       *)
(*                                                                         *)
(* Conventions                                                             *)
(*  - A JavaScript string is a sequence of one-character strings, so that  *)
(*    toLowerCase, trim, replace, split and join are computed character by *)
(*    character as the engine computes them.                               *)
(*  - A JavaScript value handed to an operation is a record [t, v]: t is   *)
(*    the result of typeof ("string", "number", "object" for null,         *)
(*    "undefined" for an omitted argument) and v the payload.              *)
(*  - A count is an exact multiple of one hundredth: the integer k stands  *)
(*    for k/100, so 1 is written One, the fine-tuning floor 0.1 is Tenth   *)
(*    and a learning rate below the floor is Twentieth.  Amounts range     *)
(*    over finite numbers; floating-point rounding is not modelled.        *)
(*  - A Map is a sequence of entries in insertion order (the order its     *)
(*    iterator yields) where the order is observable (Counter.counter),    *)
(*    and a function on its key set where it is not (Ngram.ngrams[n]).     *)
(***************************************************************************)
EXTENDS Integers, Sequences, FiniteSets, TLC

VARIABLES
  counter,     \* SpecCounter: the Map of a stand-alone Counter, in insertion order
  firstSeen,   \* SpecCounter: history, the items in the order the counter first saw them
  ngrams,      \* Ngram.ngrams: one Map (context key -> Counter) per level
  ngramMaxN,   \* Ngram.maxN
  corpus,      \* history: the token sequences learnt since the table was constructed
  lmMaxN,      \* LanguageModel.maxN
  vocabulary,  \* LanguageModel.vocabulary
  context,     \* LanguageModel.context
  disk,        \* the file written by saveModel
  saved,       \* history: the model as it was when saveModel last wrote the file
  call,        \* the last call: its operation, arguments, result, whether it threw
  ops          \* number of state-changing calls made so far

counterVars == <<counter, firstSeen>>
ngramVars == <<ngrams, ngramMaxN, corpus>>
lmVars == <<lmMaxN, vocabulary, context, disk, saved>>
vars == <<counter, firstSeen, ngrams, ngramMaxN, corpus, lmMaxN, vocabulary, context, disk,
          saved, call, ops>>

(***************************************************************************)
(* Bounds of the model.                                                    *)
(***************************************************************************)
MaxOps == 4        \* state-changing calls per run of the Counter
MaxLimit == 2      \* largest limit handed to mostCommon
MaxInitial == 2    \* longest list or mapping handed to the Counter constructor
MaxTokens == 3     \* longest token sequence handed to updateModel
MaxUpdates == 1    \* calls of updateModel per run of the table
MaxPrefix == 3     \* most words in a prefix handed to predictNextWord
MaxTrain == 1      \* calls of train per run of the language model
MaxQuery == 2      \* longest string of the exhaustive part of the query strings
MaxPredictions == 2  \* largest number of predictions asked of predict
MaxLength == 3     \* largest length asked of generateText
MaxTune == 1       \* calls of fineTune per run of the language model
MaxText == 3       \* longest string handed to tokenize on its own
MaxBand == 2       \* calls of fineTune with the one rate of a fixed-rate run

(***************************************************************************)
(* Numbers.                                                                *)
(***************************************************************************)
Tenth == 10                \* 0.1, in the unit 0.01 in which counts are held
One == 10 * Tenth          \* 1, the default amount of increment and decrement
Half == 5 * Tenth          \* 0.5, a fractional amount
Twentieth == Tenth \div 2  \* 0.05, an amount below the floor of fineTune
Hundredth == Tenth \div 10 \* 0.01

Num(k) == [t |-> "number", v |-> k]
Str(s) == [t |-> "string", v |-> s]
Null == [t |-> "object", v |-> 0]
Undefined == [t |-> "undefined", v |-> 0]
Omitted == Undefined

(***************************************************************************)
(* Counter (counter.js).                                                   *)
(***************************************************************************)
Entry(item, count) == [item |-> item, count |-> count]

\* the items of a Map in iteration order
Keys(c) == [i \in 1..Len(c) |-> c[i].item]

\* Map.has
Has(c, item) == \E i \in 1..Len(c) : c[i].item = item

\* Map.get, with the `|| 0` of every caller
Get(c, item) ==
  IF Has(c, item) THEN (CHOOSE e \in {c[i] : i \in 1..Len(c)} : e.item = item).count
  ELSE 0

\* Map.set: an existing key keeps its place, a new key goes last
MapSet(c, item, count) ==
  IF Has(c, item)
  THEN [i \in 1..Len(c) |-> IF c[i].item = item THEN Entry(item, count) ELSE c[i]]
  ELSE Append(c, Entry(item, count))

\* Map.delete
MapDelete(c, item) == SelectSeq(c, LAMBDA e : e.item # item)

\* a default parameter value: `n = 1`
Default(n, d) == IF n.t = "undefined" THEN Num(d) ELSE n

\* the guard of increment and decrement, negated: typeof n === "number" && !(n < 0)
AmountThrows_NoSign(n) == n.t # "number"
AmountThrows(n) == n.t # "number" \/ n.v < 0

\* Counter.increment: the new Map (the call is made only when the guard passes)
Increment(c, item, n) == MapSet(c, item, Get(c, item) + n)

\* Counter.decrement
Decrement(c, item, n) ==
  LET count == Get(c, item) - n
  IN  IF count > 0 THEN MapSet(c, item, count) ELSE MapDelete(c, item)

\* Counter.total
RECURSIVE Total(_)
Total(c) == IF c = <<>> THEN 0 ELSE Head(c).count + Total(Tail(c))

\* Array.prototype.sort((a, b) => b[1] - a[1]): a stable sort, larger counts first
RECURSIVE InsertSorted(_, _)
InsertSorted(sorted, e) ==
  IF sorted = <<>> THEN <<e>>
  ELSE IF Head(sorted).count >= e.count
       THEN <<Head(sorted)>> \o InsertSorted(Tail(sorted), e)
       ELSE <<e>> \o sorted
RECURSIVE SortByCount(_)
SortByCount(c) ==
  IF c = <<>> THEN <<>>
  ELSE InsertSorted(SortByCount(SubSeq(c, 1, Len(c) - 1)), c[Len(c)])

\* Array.prototype.slice(0, n) for n omitted or an integer >= 0
Slice0(s, n) ==
  IF n.t = "undefined" THEN s
  ELSE SubSeq(s, 1, IF n.v < Len(s) THEN n.v ELSE Len(s))

\* Counter.mostCommon
MostCommon_Unsorted(c, n) == Slice0(c, n)
MostCommon(c, n) == Slice0(SortByCount(c), n)

\* Array(count): a RangeError unless count is an integer (0 <= count < 2^32)
ArrayThrows(count) == count % One # 0

RECURSIVE Repeat(_, _)
Repeat(item, k) == IF k <= 0 THEN <<>> ELSE <<item>> \o Repeat(item, k - 1)

\* Counter.elements: [threw, value]
RECURSIVE Elements(_)
Elements(c) ==
  IF c = <<>> THEN [threw |-> FALSE, value |-> <<>>]
  ELSE IF ArrayThrows(Head(c).count) THEN [threw |-> TRUE, value |-> <<>>]
  ELSE LET rest == Elements(Tail(c))
       IN  IF rest.threw THEN rest
           ELSE [threw |-> FALSE,
                 value |-> Repeat(Head(c).item, Head(c).count \div One) \o rest.value]

\* Counter.constructor with an array: increment(item) for each item
RECURSIVE FromList(_, _)
FromList(c, list) ==
  IF list = <<>> THEN c ELSE FromList(Increment(c, Head(list), One), Tail(list))

\* Counter.constructor with an object: increment(item, count) for each entry;
\* [threw, value], the first rejected count aborts the construction
RECURSIVE FromMapping(_, _)
FromMapping(c, mapping) ==
  IF mapping = <<>> THEN [threw |-> FALSE, value |-> c]
  ELSE LET n == Default(Head(mapping).count, One)
       IN  IF AmountThrows(n) THEN [threw |-> TRUE, value |-> c]
           ELSE FromMapping(Increment(c, Head(mapping).item, n.v), Tail(mapping))

(***************************************************************************)
(* Strings and the tokenizer of the table (ngram.js).                      *)
(***************************************************************************)
Whitespace == {" "}
\* the characters the model uses that /[^\w\s']|_/g removes
Stripped == {"!", ",", ".", "?", "_"}
\* String.prototype.toLowerCase, on the upper-case characters the model uses
LowerCaseOf(ch) ==
  IF ch = "A" THEN "a" ELSE IF ch = "B" THEN "b" ELSE IF ch = "H" THEN "h"
  ELSE IF ch = "W" THEN "w" ELSE ch

ToLowerCase_Keep(s) == s
ToLowerCase(s) == [i \in 1..Len(s) |-> LowerCaseOf(s[i])]

RECURSIVE TrimStart(_)
TrimStart(s) ==
  IF s # <<>> /\ Head(s) \in Whitespace THEN TrimStart(Tail(s)) ELSE s
RECURSIVE TrimEnd(_)
TrimEnd(s) ==
  IF s # <<>> /\ s[Len(s)] \in Whitespace THEN TrimEnd(SubSeq(s, 1, Len(s) - 1)) ELSE s
\* String.prototype.trim
Trim(s) == TrimEnd(TrimStart(s))

\* replace(/[^\w\s']|_/g, "")
Strip_KeepPunctuation(s) == s
Strip(s) == SelectSeq(s, LAMBDA ch : ch \notin Stripped)

\* split(/\s+/): `cur` is the piece being read, `i` the next character
RECURSIVE SplitFrom(_, _, _)
SplitFrom(s, i, cur) ==
  IF i > Len(s) THEN <<cur>>
  ELSE IF s[i] \in Whitespace
       THEN IF i > 1 /\ s[i - 1] \in Whitespace
            THEN SplitFrom(s, i + 1, cur)
            ELSE <<cur>> \o SplitFrom(s, i + 1, <<>>)
       ELSE SplitFrom(s, i + 1, Append(cur, s[i]))
SplitWhitespace(s) == SplitFrom(s, 1, <<>>)

\* split(" "): every single space separates two pieces
RECURSIVE SplitSpaceFrom(_, _, _)
SplitSpaceFrom(s, i, cur) ==
  IF i > Len(s) THEN <<cur>>
  ELSE IF s[i] = " "
       THEN <<cur>> \o SplitSpaceFrom(s, i + 1, <<>>)
       ELSE SplitSpaceFrom(s, i + 1, Append(cur, s[i]))
SplitSpace(s) == SplitSpaceFrom(s, 1, <<>>)

\* Array.prototype.join(" ")
RECURSIVE Join(_)
Join(tokens) ==
  IF tokens = <<>> THEN <<>>
  ELSE IF Len(tokens) = 1 THEN tokens[1]
  ELSE tokens[1] \o <<" ">> \o Join(Tail(tokens))

\* Ngram.tokenize; `tokens == ''` holds exactly of the array [""]
Tokenize(text) ==
  LET tokens == SplitWhitespace(Strip(Trim(ToLowerCase(text))))
  IN  IF tokens = << <<>> >> THEN <<>> ELSE tokens

(***************************************************************************)
(* The n-gram table (ngram.js).                                            *)
(***************************************************************************)
MaxNCap == 5
DefaultMaxN == 5

EmptyMap == [k \in {} |-> <<>>]

Min(a, b) == IF a < b THEN a ELSE b

\* Ngram.constructor: [threw, maxN, ngrams]; new Array(k) is a RangeError for k < 0
NewNgram(arg) ==
  LET given == Default(arg, DefaultMaxN).v
      m == Min(given, MaxNCap)
  IN  IF m < 0 THEN [threw |-> TRUE, maxN |-> m, ngrams |-> <<>>]
      ELSE [threw |-> FALSE, maxN |-> m, ngrams |-> [n \in 1..m |-> EmptyMap]]

\* Map.set on a level
LevelSet(level, key, c) ==
  [k \in DOMAIN level \cup {key} |-> IF k = key THEN c ELSE level[k]]

\* tokens.slice(i, i + n), i counted from 0
Slice(tokens, i, n) == SubSeq(tokens, i + 1, Min(i + n, Len(tokens)))

\* tokens[i + n] || ''
NextWord(tokens, i, n) == IF i + n + 1 <= Len(tokens) THEN tokens[i + n + 1] ELSE <<>>

\* the body of updateModel's inner loop for one n, from start index i on
RECURSIVE UpdateLevel_SkipLast(_, _, _, _)
UpdateLevel_SkipLast(level, tokens, n, i) ==
  IF i >= Len(tokens) - n THEN level
  ELSE LET ngram == Join(Slice(tokens, i, n))
           old == IF ngram \in DOMAIN level THEN level[ngram] ELSE <<>>
       IN  UpdateLevel_SkipLast(
             LevelSet(level, ngram, Increment(old, NextWord(tokens, i, n), One)),
             tokens, n, i + 1)
RECURSIVE UpdateLevel(_, _, _, _)
UpdateLevel(level, tokens, n, i) ==
  IF i > Len(tokens) - n THEN level
  ELSE LET ngram == Join(Slice(tokens, i, n))
           old == IF ngram \in DOMAIN level THEN level[ngram] ELSE <<>>
       IN  UpdateLevel(
             LevelSet(level, ngram, Increment(old, NextWord(tokens, i, n), One)),
             tokens, n, i + 1)

\* Ngram.updateModel
UpdateModel(ngs, maxN, tokens) ==
  [n \in 1..Len(ngs) |-> IF n <= maxN THEN UpdateLevel(ngs[n], tokens, n, 0) ELSE ngs[n]]

\* the loop of predictNextWord from n downwards
RECURSIVE PredictFrom(_, _, _)
PredictFrom(ngs, tokens, n) ==
  IF n <= 0 THEN <<>>
  ELSE LET ngram == Join(SubSeq(tokens, Len(tokens) - n + 1, Len(tokens)))
       IN  IF ngram \in DOMAIN ngs[n]
           THEN Keys(MostCommon(ngs[n][ngram], Omitted))
           ELSE PredictFrom(ngs, tokens, n - 1)

\* the same loop run from n upwards: the shortest context first
RECURSIVE PredictUpFrom(_, _, _, _)
PredictUpFrom(ngs, tokens, n, top) ==
  IF n > top THEN <<>>
  ELSE LET ngram == Join(SubSeq(tokens, Len(tokens) - n + 1, Len(tokens)))
       IN  IF ngram \in DOMAIN ngs[n]
           THEN Keys(MostCommon(ngs[n][ngram], Omitted))
           ELSE PredictUpFrom(ngs, tokens, n + 1, top)

\* Ngram.predictNextWord
PredictNextWord_ShortestFirst(ngs, maxN, prefix) ==
  LET tokens == Tokenize(prefix)
  IN  PredictUpFrom(ngs, tokens, 1, Min(Len(tokens), maxN))
PredictNextWord(ngs, maxN, prefix) ==
  LET tokens == Tokenize(prefix)
  IN  PredictFrom(ngs, tokens, Min(Len(tokens), maxN))

(***************************************************************************)
(* The language model (language-model.js).                                 *)
(***************************************************************************)
DefaultLength == 10
DefaultPredictions == 1

\* text.toLowerCase() is a TypeError for every value that is not a string
TokenizeThrows(x) == x.t # "string"

\* LanguageModel.constructor: [ngrams, ngramMaxN, lmMaxN]; `ngram` is an Ngram
\* [maxN, ngrams] or Undefined, and this.maxN = ngram?.maxN
NewLanguageModel(ngram, maxN) ==
  IF ngram = Undefined
  THEN [ngrams |-> NewNgram(maxN).ngrams, ngramMaxN |-> NewNgram(maxN).maxN,
        lmMaxN |-> Undefined]
  ELSE [ngrams |-> ngram.ngrams, ngramMaxN |-> ngram.maxN, lmMaxN |-> Num(ngram.maxN)]

\* Ngram.learn
Learn(ngs, maxN, text) == UpdateModel(ngs, maxN, Tokenize(text))

\* the set of the elements of a sequence
Range(s) == {s[i] : i \in 1..Len(s)}

\* LanguageModel.train on a string: [ngrams, vocabulary]
Train(ngs, maxN, vocab, text) ==
  LET tokens == Tokenize(text)
  IN  [ngrams |-> Learn(ngs, maxN, Join(tokens)), vocabulary |-> vocab \cup Range(tokens)]

\* LanguageModel.predict on a string prefix
Predict(ngs, maxN, prefix, numPredictions) ==
  Slice0(PredictNextWord(ngs, maxN, prefix), Default(numPredictions, DefaultPredictions))

\* pieces.slice(-m): ToIntegerOrInfinity makes undefined 0, and slice(-0) is slice(0)
SliceLast(pieces, m) ==
  IF m.t = "undefined" \/ m.v = 0 THEN pieces
  ELSE SubSeq(pieces, Len(pieces) - Min(m.v, Len(pieces)) + 1, Len(pieces))

\* !nextWord: undefined (no prediction) or the empty string
NoNextWord_OnlyUndefined(predictions) == predictions = <<>>
NoNextWord(predictions) == predictions = <<>> \/ predictions[1] = <<>>

\* the loop of generateText on a string: `left` iterations remain
RECURSIVE GenerateLoop(_, _, _, _, _, _)
GenerateLoop(ngs, maxN, m, generated, currentPrefix, left) ==
  IF left <= 0 THEN generated
  ELSE LET predictions == Predict(ngs, maxN, currentPrefix, Num(1))
       IN  IF NoNextWord(predictions) THEN generated
           ELSE LET longer == generated \o <<" ">> \o predictions[1]
                IN  GenerateLoop(ngs, maxN, m, longer,
                                 Join(SliceLast(SplitSpace(longer), m)), left - 1)

\* LanguageModel.generateText: [threw, value]; a start that is not a string makes
\* the first predict throw, when there is a first
GenerateText(ngs, maxN, m, start, length) ==
  LET len == Default(length, DefaultLength).v
  IN  IF len <= 0 THEN [threw |-> FALSE, value |-> start]
      ELSE IF TokenizeThrows(start) THEN [threw |-> TRUE, value |-> Undefined]
      ELSE [threw |-> FALSE,
            value |-> Str(GenerateLoop(ngs, maxN, m, start.v, start.v, len))]

\* JSON.stringify of a Map: a Map has no enumerable own properties, so "{}"
JsonOfMap(level) == EmptyMap

\* the file saveModel writes: JSON.stringify of {ngram, maxN, vocabulary, context};
\* of the Ngram object its maxN and its array of Maps are serialised, and a
\* property whose value is undefined is left out (it reads back as undefined)
ModelState(ngs, maxN, m, vocab, ctx) ==
  [ngram |-> [maxN |-> maxN, ngrams |-> [n \in 1..Len(ngs) |-> JsonOfMap(ngs[n])]],
   maxN |-> m, vocabulary |-> vocab, context |-> ctx]

\* the loop of loadModel over one saved level: each saved counter is rebuilt
\* from its raw counts and set under its key
LoadLevel(level, savedLevel) ==
  [k \in DOMAIN level \cup DOMAIN savedLevel |->
     IF k \in DOMAIN savedLevel THEN savedLevel[k] ELSE level[k]]

\* LanguageModel.loadModel: [ngrams, ngramMaxN, lmMaxN, vocabulary, context]
LoadModel(modelState) ==
  LET fresh == NewNgram(modelState.maxN)
  IN  [ngrams |-> [n \in 1..Len(fresh.ngrams) |->
                     IF n <= Len(modelState.ngram.ngrams)
                     THEN LoadLevel(fresh.ngrams[n], modelState.ngram.ngrams[n])
                     ELSE fresh.ngrams[n]],
       ngramMaxN |-> fresh.maxN,
       lmMaxN |-> modelState.maxN,
       vocabulary |-> modelState.vocabulary,
       context |-> modelState.context]

\* LanguageModel.clearModel: [ngrams, ngramMaxN, vocabulary, context]; the fresh
\* table is new Ngram(this.maxN), of the default size when this.maxN is undefined
ClearModel(m) ==
  [ngrams |-> NewNgram(m).ngrams, ngramMaxN |-> NewNgram(m).maxN,
   vocabulary |-> {}, context |-> EmptyMap]

\* LanguageModel.setContext: { ...this.context, ...context }
SetContext(ctx, given) ==
  [k \in DOMAIN ctx \cup DOMAIN given |-> IF k \in DOMAIN given THEN given[k] ELSE ctx[k]]

\* LanguageModel.explainPrediction on a string: the prefix and the predictions
\* the explanation quotes
ExplainPrediction(ngs, maxN, prefix) ==
  [prefix |-> prefix, predictions |-> Predict(ngs, maxN, prefix, Num(3))]

\* the guard of fineTune: learningRate <= 0 || learningRate > 1, on a number
RateThrows_ZeroAllowed(r) == r.v < 0 \/ r.v > One
RateThrows(r) == r.v <= 0 \/ r.v > One

\* the body of fineTune's inner loop for one position whose context exists:
\* the counter after the adjustment by r and the clamp to the floor
Adjusted_AlwaysIncrement(c, nextWord, r, m) == Increment(c, nextWord, r)
Adjusted(c, nextWord, r, m) ==
  LET moved == IF Get(c, nextWord) > m * One
               THEN Decrement(c, nextWord, r)
               ELSE Increment(c, nextWord, r)
  IN  IF Get(moved, nextWord) < Tenth
      THEN Increment(moved, nextWord, Tenth - Get(moved, nextWord))
      ELSE moved

\* the inner loop of fineTune for one n, from start index i on
RECURSIVE FineTuneLevel(_, _, _, _, _, _)
FineTuneLevel(level, tokens, n, i, r, m) ==
  IF i > Len(tokens) - n THEN level
  ELSE LET ngram == Join(Slice(tokens, i, n))
           nextWord == NextWord(tokens, i, n)
           c == IF ngram \in DOMAIN level
                THEN Adjusted(level[ngram], nextWord, r, m)
                ELSE Increment(<<>>, nextWord, r)
       IN  FineTuneLevel(LevelSet(level, ngram, c), tokens, n, i + 1, r, m)

\* LanguageModel.fineTune on a string and an accepted rate: the new table.  The
\* loop `n <= this.maxN` never runs when this.maxN is undefined.
FineTune(ngs, m, text, r) ==
  LET tokens == Tokenize(text)
  IN  [n \in 1..Len(ngs) |->
         IF m.t = "number" /\ n <= m.v
         THEN FineTuneLevel(ngs[n], tokens, n, 0, r, m.v)
         ELSE ngs[n]]

(***************************************************************************)
(* The measures read from the table.  The result of a division is held as  *)
(* the fraction num/den of two integers >= 0: 0/0 is NaN and 1/0 Infinity, *)
(* as the division of the engine yields them.                              *)
(***************************************************************************)
NaN == [num |-> 0, den |-> 0]
Infinity == [num |-> 1, den |-> 0]
Zero == [num |-> 0, den |-> 1]

IsNaN(x) == x.num = 0 /\ x.den = 0

\* a / b for integers a, b >= 0
Frac(a, b) ==
  IF b # 0 THEN [num |-> a, den |-> b] ELSE IF a = 0 THEN NaN ELSE Infinity

\* x + y
FracAdd(x, y) ==
  IF IsNaN(x) \/ IsNaN(y) THEN NaN
  ELSE IF x.den = 0 THEN x
  ELSE IF y.den = 0 THEN y
  ELSE [num |-> x.num * y.den + y.num * x.den, den |-> x.den * y.den]

\* x * y
FracMul(x, y) ==
  IF IsNaN(x) \/ IsNaN(y) THEN NaN
  ELSE Frac(x.num * y.num, x.den * y.den)

\* x / y
FracDiv(x, y) ==
  IF IsNaN(x) \/ IsNaN(y) THEN NaN
  ELSE Frac(x.num * y.den, x.den * y.num)

\* x || 0: NaN and 0 are falsy
OrZero_Keep(x) == x
OrZero(x) == IF IsNaN(x) \/ (x.num = 0 /\ x.den # 0) THEN Zero ELSE x

\* x <= y for two finite fractions
FracLeq(x, y) == x.num * y.den <= y.num * x.den

\* LanguageModel.getProbability on a string context: the counter is looked up
\* at the level of the number of tokens of the context, under `key`
ProbabilityUnder(ngs, word, ctx, key) ==
  LET n == Len(Tokenize(ctx))
  IN  IF n \in 1..Len(ngs) /\ key \in DOMAIN ngs[n]
      THEN LET found == ngs[n][key]
           IN  IF Total(found) > 0 THEN Frac(Get(found, word), Total(found)) ELSE Zero
      ELSE Zero

\* this.ngram.ngrams[...]?.get(context): the key is the context as it was passed
GetProbability_JoinedKey(ngs, word, ctx) ==
  ProbabilityUnder(ngs, word, ctx, Join(Tokenize(ctx)))
GetProbability(ngs, word, ctx) ==
  ProbabilityUnder(ngs, word, ctx, ctx)

\* weights.reduce((acc, val) => acc + val, 0)
RECURSIVE SumSeq(_)
SumSeq(s) == IF s = <<>> THEN 0 ELSE Head(s) + SumSeq(Tail(s))

\* the inner loop of attentionWeights for the token at position i (from 1):
\* the totals of the counters of the contexts of 1..top tokens ending there
RECURSIVE TotalWeight(_, _, _, _)
TotalWeight(ngs, tokens, i, top) ==
  IF top <= 0 THEN 0
  ELSE LET first == IF i - top + 1 > 1 THEN i - top + 1 ELSE 1
           ngram == Join(SubSeq(tokens, first, i))
       IN  (IF ngram \in DOMAIN ngs[top] THEN Total(ngs[top][ngram]) ELSE 0)
             + TotalWeight(ngs, tokens, i, top - 1)

\* totalWeight > 0 ? totalWeight : 0.1
Weight_NoDefault(totalWeight) == totalWeight
Weight(totalWeight) == IF totalWeight > 0 THEN totalWeight ELSE Tenth

\* LanguageModel.attentionWeights on a string: the weights.  The loop
\* `n <= this.maxN && n <= tokens.length` never runs when this.maxN is undefined.
AttentionWeights(ngs, m, input) ==
  LET tokens == Tokenize(input)
      top == IF m.t = "number" THEN Min(m.v, Len(tokens)) ELSE 0
      weights == [i \in 1..Len(tokens) |-> Weight(TotalWeight(ngs, tokens, i, top))]
  IN  IF Len(tokens) <= 1
      THEN [i \in 1..Len(tokens) |-> Frac(1, Len(tokens))]
      ELSE [i \in 1..Len(tokens) |-> Frac(weights[i], SumSeq(weights))]

\* LanguageModel.perplexity on a string: the context of each token,
\* tokens.slice(Math.max(0, i - this.maxN + 1), i).join(" ").  With this.maxN
\* undefined the slice starts at NaN, that is at 0.
PerplexityContexts(m, text) ==
  LET tokens == Tokenize(text)
      first(i) == IF m.t = "number" /\ i - m.v + 1 > 1 THEN i - m.v + 1 ELSE 1
  IN  [i \in 1..Len(tokens) |-> Join(SubSeq(tokens, first(i), i - 1))]

\* LanguageModel.perplexity on a string: the probabilities whose logarithms are
\* summed, one per token, a probability 0 standing for Number.EPSILON
PerplexityProbabilities(ngs, m, text) ==
  LET tokens == Tokenize(text)
  IN  [i \in 1..Len(tokens) |->
         GetProbability(ngs, tokens[i], PerplexityContexts(m, text)[i])]

\* Math.exp(-logProbSum / tokens.length) is NaN exactly when there is no token:
\* every summand is the logarithm of a positive number
PerplexityIsNaN(ngs, m, text) == PerplexityProbabilities(ngs, m, text) = <<>>

\* candidate.filter((w) => w === word).length
CountIn(tokens, word) == Cardinality({i \in 1..Len(tokens) : tokens[i] = word})

\* LanguageModel.bleuPrecision: the minimum is added once for every position of
\* the candidate
BleuPrecision(candidate, reference) ==
  Frac(SumSeq([i \in 1..Len(candidate) |->
                 Min(CountIn(candidate, candidate[i]), CountIn(reference, candidate[i]))]),
       Len(candidate))

\* the sum of a sequence of fractions, from 0
RECURSIVE FracSum(_)
FracSum(s) == IF s = <<>> THEN Zero ELSE FracAdd(FracSum(SubSeq(s, 1, Len(s) - 1)), s[Len(s)])

\* the word evaluate looks for in its binary classification
TargetWord == <<"t", "a", "r", "g", "e", "t", "W", "o", "r", "d">>

\* input.split(" ").slice(0, -1).join(" ")
AllButLastPiece(input) ==
  LET pieces == SplitSpace(input) IN Join(SubSeq(pieces, 1, Len(pieces) - 1))

\* array[0] and array[array.length - 1]: the element, or nothing (undefined)
FirstOf(s) == IF s = <<>> THEN <<>> ELSE <<s[1]>>
LastOf(s) == IF s = <<>> THEN <<>> ELSE <<s[Len(s)]>>

\* LanguageModel.evaluate on an array of {input, reference}: the metrics, and
\* the precision of each item.  averagePerplexity is held as NaN or not.
Evaluate(ngs, maxN, m, testData) ==
  LET items == 1..Len(testData)
      tokens(k) == Tokenize(testData[k].input.v)
      refTokens(k) == Tokenize(testData[k].reference.v)
      precisions == [k \in items |-> BleuPrecision(tokens(k), refTokens(k))]
      prediction(k) == FirstOf(Predict(ngs, maxN, AllButLastPiece(testData[k].input.v), Num(1)))
      correct == [k \in items |-> prediction(k) = LastOf(refTokens(k))]
      correctPredictions == Cardinality({k \in items : correct[k]})
      totalPredictions == Len(testData)
      actualClass(k) == TargetWord \in Range(refTokens(k))
      predictedClass(k) == TargetWord \in Range(tokens(k))
      truePositives == Cardinality({k \in items : actualClass(k) /\ predictedClass(k)})
      falsePositives == Cardinality({k \in items : ~actualClass(k) /\ predictedClass(k)})
      falseNegatives == Cardinality({k \in items : actualClass(k) /\ ~predictedClass(k)})
      precision == Frac(truePositives, truePositives + falsePositives)
      recall == Frac(truePositives, truePositives + falseNegatives)
  IN  IF \E k \in items : TokenizeThrows(testData[k].input) \/ TokenizeThrows(testData[k].reference)
      THEN [threw |-> TRUE]
      ELSE [threw |-> FALSE,
            precisions |-> precisions,
            correct |-> correct,
            truePositives |-> truePositives,
            falsePositives |-> falsePositives,
            falseNegatives |-> falseNegatives,
            averagePerplexityIsNaN |->
              \/ \E k \in items : PerplexityIsNaN(ngs, m, testData[k].input.v)
              \/ Len(testData) = 0,
            averageBLEUScore |-> FracDiv(FracSum(precisions), Frac(Len(testData), 1)),
            accuracy |-> Frac(correctPredictions, totalPredictions),
            f1Score |-> OrZero(FracDiv(FracMul(Frac(2, 1), FracMul(precision, recall)),
                                       FracAdd(precision, recall)))]

DefaultDimensions == 10

\* String.prototype.includes: word is a substring of key
Includes(key, word) ==
  \E i \in 0..(Len(key) - Len(word)) : SubSeq(key, i + 1, i + Len(word)) = word

\* Array.prototype.indexOf, from 0, -1 when absent
IndexOf(pieces, word) ==
  IF word \in Range(pieces)
  THEN (CHOOSE i \in 1..Len(pieces) :
          pieces[i] = word /\ \A j \in 1..(i - 1) : pieces[j] # word) - 1
  ELSE -1

\* a % b of the engine: the sign of the result is the sign of a
Remainder(a, b) == IF a >= 0 THEN a % b ELSE -((-a) % b)

\* the position getEmbeddings computes for context `key` of gram length n
Position(n, key, word, dimensions) ==
  Remainder((n - 1) * 3 + Remainder(IndexOf(SplitSpace(key), word), 3), dimensions)

\* the sum of the values of a function of finite domain
RECURSIVE SumOver(_)
SumOver(f) ==
  IF DOMAIN f = {} THEN 0
  ELSE LET x == CHOOSE y \in DOMAIN f : TRUE
       IN  f[x] + SumOver([y \in DOMAIN f \ {x} |-> f[y]])

\* the vector getEmbeddings accumulates before it normalises: entry p (from 0)
\* holds the totals of the contexts that include the word and whose position
\* is p; a negative position names no entry of the array
Accumulated(ngs, m, word, dimensions) ==
  LET top == IF m.t = "number" THEN m.v ELSE 0
      hits(n, p) == {key \in DOMAIN ngs[n] :
                       Includes(key, word) /\ Position(n, key, word, dimensions) = p}
      levelSum(n, p) == SumOver([key \in hits(n, p) |-> Total(ngs[n][key])])
  IN  [q \in 1..dimensions |-> SumOver([n \in 1..top |-> levelSum(n, q - 1)])]

\* LanguageModel.getEmbeddings for whole dimensions > 0: random numbers for a
\* word outside the vocabulary, a random unit vector when nothing was
\* accumulated, and else the accumulated vector divided by its magnitude,
\* held as its direction
GetEmbeddings(ngs, m, vocab, word, dimensions) ==
  LET dims == Default(dimensions, DefaultDimensions).v
      embedding == Accumulated(ngs, m, word, dims)
  IN  IF word \notin vocab THEN [kind |-> "random", length |-> dims]
      ELSE IF \A q \in 1..dims : embedding[q] = 0
           THEN [kind |-> "randomUnit", length |-> dims]
           ELSE [kind |-> "unit", length |-> dims, direction |-> embedding]

(***************************************************************************)
(* The stand-alone Counter as a state machine.                             *)
(***************************************************************************)
Items == {<<"a">>, <<"b">>}
Amounts == {Omitted, Null, Str(<<"1">>), Num(-One), Num(0), Num(Half), Num(One)}
Limits == {Omitted} \cup {Num(k) : k \in 0..MaxLimit}
InitialLists == UNION {[1..k -> Items] : k \in 0..MaxInitial}
InitialMappings ==
  {m \in UNION {[1..k -> {Entry(i, n) : i \in Items, n \in Amounts}] : k \in 1..MaxInitial} :
     \A i, j \in 1..Len(m) : i # j => m[i].item # m[j].item}

Idle == [op |-> "idle"]

\* the history of first sightings after one more item was stored
Seen(seen, item) ==
  IF \E i \in 1..Len(seen) : seen[i] = item THEN seen ELSE Append(seen, item)

\* the parts of the state a specification does not use
NoCounter == counter = <<>> /\ firstSeen = <<>>
NoNgram == ngrams = <<>> /\ ngramMaxN = 0 /\ corpus = <<>>
NoModel == lmMaxN = Undefined /\ vocabulary = {} /\ context = <<>> /\ disk = <<>> /\ saved = <<>>

InitCounter ==
  /\ counter = <<>>
  /\ firstSeen = <<>>
  /\ NoNgram
  /\ NoModel
  /\ call = Idle
  /\ ops = 0

\* new Counter(list)
CounterNewList ==
  \E list \in InitialLists :
    /\ ops < MaxOps
    /\ counter' = FromList(<<>>, list)
    /\ firstSeen' = Keys(counter')
    /\ call' = [op |-> "new", threw |-> FALSE]
    /\ ops' = ops + 1
    /\ UNCHANGED <<ngramVars, lmVars>>

\* new Counter(mapping); a constructor that throws leaves the old object in place
CounterNewMapping ==
  \E mapping \in InitialMappings :
    LET r == FromMapping(<<>>, mapping)
    IN  /\ ops < MaxOps
        /\ counter' = IF r.threw THEN counter ELSE r.value
        /\ firstSeen' = IF r.threw THEN firstSeen ELSE Keys(r.value)
        /\ call' = [op |-> "new", threw |-> r.threw]
        /\ ops' = ops + 1
        /\ UNCHANGED <<ngramVars, lmVars>>

\* counter.increment(item, amount)
CounterIncrement ==
  \E item \in Items, amount \in Amounts :
    LET n == Default(amount, One)
    IN  /\ ops < MaxOps
        /\ counter' = IF AmountThrows(n) THEN counter ELSE Increment(counter, item, n.v)
        /\ firstSeen' = IF AmountThrows(n) THEN firstSeen ELSE Seen(firstSeen, item)
        /\ call' = [op |-> "increment", item |-> item, n |-> n, threw |-> AmountThrows(n)]
        /\ ops' = ops + 1
        /\ UNCHANGED <<ngramVars, lmVars>>

\* counter.decrement(item, amount)
CounterDecrement ==
  \E item \in Items, amount \in Amounts :
    LET n == Default(amount, One)
    IN  /\ ops < MaxOps
        /\ counter' = IF AmountThrows(n) THEN counter ELSE Decrement(counter, item, n.v)
        /\ call' = [op |-> "decrement", item |-> item, n |-> n, threw |-> AmountThrows(n)]
        /\ ops' = ops + 1
        /\ UNCHANGED <<firstSeen, ngramVars, lmVars>>

\* counter.mostCommon(limit)
CounterMostCommon ==
  \E limit \in Limits :
    /\ call' = [op |-> "mostCommon", limit |-> limit, threw |-> FALSE,
                result |-> MostCommon(counter, limit)]
    /\ UNCHANGED <<counterVars, ngramVars, lmVars, ops>>

\* counter.elements()
CounterElements ==
  /\ call' = [op |-> "elements", threw |-> Elements(counter).threw,
              result |-> Elements(counter).value]
  /\ UNCHANGED <<counterVars, ngramVars, lmVars, ops>>

NextCounter ==
  \/ CounterNewList
  \/ CounterNewMapping
  \/ CounterIncrement
  \/ CounterDecrement
  \/ CounterMostCommon
  \/ CounterElements

SpecCounter == InitCounter /\ [][NextCounter]_vars

(***************************************************************************)
(* The table as a state machine: construction, updateModel,                *)
(* predictNextWord.  A call is made from Idle and its record is cleared by *)
(* Return, when the caller has taken the result.                           *)
(***************************************************************************)
Words == {<<"a">>, <<"b">>}
TokenSeqs == UNION {[1..k -> Words] : k \in 0..MaxTokens}
NgramArgs == {Omitted} \cup {Num(k) : k \in -1..6}
\* prefixes: the token sequences of up to MaxPrefix words joined by one space,
\* and strings with upper case, punctuation, outer and doubled spaces
PrefixTokens == UNION {[1..k -> Words] : k \in 0..MaxPrefix}
Prefixes ==
  {Join(ts) : ts \in PrefixTokens}
    \cup {<<"A">>, <<" ">>, <<"a", "b">>, <<"a", "!", " ", "b">>, <<"b", " ", "!">>,
          <<" ", "a", " ", " ", "B", " ">>}

InitNgram ==
  /\ NoCounter
  /\ NoModel
  /\ \E arg \in NgramArgs :
       /\ ~NewNgram(arg).threw
       /\ ngrams = NewNgram(arg).ngrams
       /\ ngramMaxN = NewNgram(arg).maxN
       /\ call = [op |-> "Ngram", arg |-> arg, threw |-> FALSE]
  /\ corpus = <<>>
  /\ ops = 0

\* ngram = new Ngram(arg); a constructor that throws leaves the old table in place
NgramConstruct ==
  \E arg \in NgramArgs :
    LET r == NewNgram(arg)
    IN  /\ call = Idle
        /\ ngrams' = IF r.threw THEN ngrams ELSE r.ngrams
        /\ ngramMaxN' = IF r.threw THEN ngramMaxN ELSE r.maxN
        /\ corpus' = IF r.threw THEN corpus ELSE <<>>
        /\ call' = [op |-> "Ngram", arg |-> arg, threw |-> r.threw]
        /\ UNCHANGED <<counterVars, lmVars, ops>>

\* ngram.updateModel(tokens)
NgramUpdateModel ==
  \E tokens \in TokenSeqs :
    /\ call = Idle
    /\ ops < MaxUpdates
    /\ ngrams' = UpdateModel(ngrams, ngramMaxN, tokens)
    /\ corpus' = Append(corpus, tokens)
    /\ call' = [op |-> "updateModel", tokens |-> tokens, threw |-> FALSE]
    /\ ops' = ops + 1
    /\ UNCHANGED <<counterVars, lmVars, ngramMaxN>>

\* ngram.predictNextWord(prefix)
NgramPredictNextWord ==
  \E prefix \in Prefixes :
    /\ call = Idle
    /\ call' = [op |-> "predictNextWord", prefix |-> prefix, threw |-> FALSE,
                result |-> PredictNextWord(ngrams, ngramMaxN, prefix)]
    /\ UNCHANGED <<counterVars, ngramVars, lmVars, ops>>

\* the caller takes the result of the last call
Return ==
  /\ call # Idle
  /\ call' = Idle
  /\ UNCHANGED <<counterVars, ngramVars, lmVars, ops>>

NextNgram ==
  \/ NgramConstruct
  \/ NgramUpdateModel
  \/ NgramPredictNextWord
  \/ Return

SpecNgram == InitNgram /\ [][NextNgram]_vars

(***************************************************************************)
(* The tokenizer of the table as a state machine: strings are tokenized.   *)
(***************************************************************************)
TextChars == {"a", "b", "B", " ", "!"}
Texts == UNION {[1..k -> TextChars] : k \in 0..MaxText}

InitTokenize ==
  /\ NoCounter
  /\ NoNgram
  /\ NoModel
  /\ call = Idle
  /\ ops = 0

\* ngram.tokenize(text)
NgramTokenize ==
  \E text \in Texts :
    /\ call = Idle
    /\ call' = [op |-> "tokenize", text |-> text, result |-> Tokenize(text)]
    /\ UNCHANGED <<counterVars, ngramVars, lmVars, ops>>

NextTokenize ==
  \/ NgramTokenize
  \/ Return

SpecTokenize == InitTokenize /\ [][NextTokenize]_vars

(***************************************************************************)
(* The language model as a state machine.                                  *)
(***************************************************************************)
\* an Ngram object handed to the LanguageModel constructor
NgramObject(k) == [maxN |-> NewNgram(Num(k)).maxN, ngrams |-> NewNgram(Num(k)).ngrams]
Constructions == {NgramObject(2), NgramObject(3), Undefined}
\* the second argument of the constructor, read only when no table is handed in
ConstructionMaxNs == {Omitted, Num(3)}

NonStrings == {Null, Num(0)}
\* the text and the prefix of the example of the README
ReadmeStart == <<"H", "e", "l", "l", "o">>
ReadmeText ==
  ReadmeStart \o <<" ", "w", "o", "r", "l", "d", ",", " ", "h", "o", "w", " ",
                   "a", "r", "e", " ", "y", "o", "u", "?">>
TrainTexts ==
  {<<"a">>, <<"a", " ", "a">>, <<"a", " ", "b">>, <<"a", " ", "a", " ", "b">>,
   <<"!", " ", "A">>}
QueryChars == {"a", "b", " "}
QueryTexts ==
  UNION {[1..k -> QueryChars] : k \in 0..MaxQuery}
    \cup {<<"a", " ", "a">>, <<"a", " ", "b">>, <<"A", " ", " ", "a">>,
          <<"!">>, <<"a", " ", "!">>, <<"a", "!">>}
NoFile == <<>>

\* the state after `new LanguageModel(ngram, maxN)`, for a maxN of `maxNs`
InitWith(maxNs) ==
  /\ NoCounter
  /\ \E ngram \in Constructions, maxN \in maxNs :
       /\ ngrams = NewLanguageModel(ngram, maxN).ngrams
       /\ ngramMaxN = NewLanguageModel(ngram, maxN).ngramMaxN
       /\ lmMaxN = NewLanguageModel(ngram, maxN).lmMaxN
  /\ corpus = <<>>
  /\ vocabulary = {}
  /\ context = EmptyMap
  /\ disk = NoFile
  /\ saved = NoFile
  /\ call = Idle
  /\ ops = 0

Init == InitWith({Omitted})

\* model.train(text), for a text of `texts`
TrainWith(texts) ==
  \E text \in texts :
    /\ call = Idle
    /\ ops < MaxTrain
    /\ IF TokenizeThrows(text)
       THEN UNCHANGED <<ngrams, vocabulary, corpus>>
       ELSE /\ ngrams' = Train(ngrams, ngramMaxN, vocabulary, text.v).ngrams
            /\ vocabulary' = Train(ngrams, ngramMaxN, vocabulary, text.v).vocabulary
            /\ corpus' = Append(corpus, Tokenize(Join(Tokenize(text.v))))
    /\ call' = [op |-> "train", text |-> text, threw |-> TokenizeThrows(text)]
    /\ ops' = ops + 1
    /\ UNCHANGED <<counterVars, ngramMaxN, lmMaxN, context, disk, saved>>

LmTrain == TrainWith({Str(t) : t \in TrainTexts} \cup NonStrings)

\* model.predict(prefix, numPredictions), for a prefix of `prefixes`
PredictWith(prefixes) ==
  \E prefix \in prefixes,
     numPredictions \in {Omitted} \cup {Num(k) : k \in 0..MaxPredictions} :
    /\ call = Idle
    /\ call' = [op |-> "predict", text |-> prefix, n |-> numPredictions,
                threw |-> TokenizeThrows(prefix),
                result |-> IF TokenizeThrows(prefix) THEN <<>>
                           ELSE Predict(ngrams, ngramMaxN, prefix.v, numPredictions)]
    /\ UNCHANGED <<counterVars, ngramVars, lmVars, ops>>

LmPredict == PredictWith({Str(t) : t \in QueryTexts} \cup NonStrings)

\* model.generateText(start, length), for a start of `starts`
GenerateTextWith(starts) ==
  \E start \in starts,
     length \in {Omitted} \cup {Num(k) : k \in 0..MaxLength} :
    /\ call = Idle
    /\ call' = [op |-> "generateText", text |-> start, n |-> length,
                threw |-> GenerateText(ngrams, ngramMaxN, lmMaxN, start, length).threw,
                result |-> GenerateText(ngrams, ngramMaxN, lmMaxN, start, length).value]
    /\ UNCHANGED <<counterVars, ngramVars, lmVars, ops>>

LmGenerateText == GenerateTextWith({Str(t) : t \in QueryTexts} \cup NonStrings)

\* model.saveModel(path)
LmSaveModel ==
  /\ call = Idle
  /\ disk' = ModelState(ngrams, ngramMaxN, lmMaxN, vocabulary, context)
  /\ saved' = [ngrams |-> ngrams, ngramMaxN |-> ngramMaxN, vocabulary |-> vocabulary,
               corpus |-> corpus]
  /\ call' = [op |-> "saveModel", threw |-> FALSE]
  /\ UNCHANGED <<counterVars, ngramVars, lmMaxN, vocabulary, context, ops>>

\* model.loadModel(path); readFileSync throws when no file was written
LmLoadModel ==
  /\ call = Idle
  /\ IF disk = NoFile
     THEN UNCHANGED <<ngrams, ngramMaxN, lmMaxN, vocabulary, context>>
     ELSE /\ ngrams' = LoadModel(disk).ngrams
          /\ ngramMaxN' = LoadModel(disk).ngramMaxN
          /\ lmMaxN' = LoadModel(disk).lmMaxN
          /\ vocabulary' = LoadModel(disk).vocabulary
          /\ context' = LoadModel(disk).context
  /\ call' = [op |-> "loadModel", threw |-> (disk = NoFile)]
  /\ UNCHANGED <<counterVars, corpus, disk, saved, ops>>

\* model.clearModel()
LmClearModel ==
  /\ call = Idle
  /\ ngrams' = ClearModel(lmMaxN).ngrams
  /\ ngramMaxN' = ClearModel(lmMaxN).ngramMaxN
  /\ vocabulary' = ClearModel(lmMaxN).vocabulary
  /\ context' = ClearModel(lmMaxN).context
  /\ corpus' = <<>>
  /\ call' = [op |-> "clearModel", threw |-> FALSE]
  /\ UNCHANGED <<counterVars, lmMaxN, disk, saved, ops>>

Next ==
  \/ LmTrain
  \/ LmPredict
  \/ LmGenerateText
  \/ LmSaveModel
  \/ LmLoadModel
  \/ Return

Spec == Init /\ [][Next]_vars

(***************************************************************************)
(* The example of the README as a state machine: `new LanguageModel()`,    *)
(* then train, predict and generateText on the words of its sentence.      *)
(***************************************************************************)
ReadmeTexts == {ReadmeText, ReadmeStart}
ReadmeQueries ==
  {ReadmeStart,
   ReadmeStart \o <<" ", "w", "o", "r", "l", "d">>,
   <<"w", "o", "r", "l", "d", ",">>,
   <<"h", "o", "w", " ", "a", "r", "e">>,
   <<"y", "o", "u", "?">>,
   <<"a", "r", "e", " ", "w", "o", "r", "l", "d">>}

InitReadme ==
  /\ NoCounter
  /\ ngrams = NewLanguageModel(Undefined, Omitted).ngrams
  /\ ngramMaxN = NewLanguageModel(Undefined, Omitted).ngramMaxN
  /\ lmMaxN = NewLanguageModel(Undefined, Omitted).lmMaxN
  /\ corpus = <<>>
  /\ vocabulary = {}
  /\ context = EmptyMap
  /\ disk = NoFile
  /\ saved = NoFile
  /\ call = Idle
  /\ ops = 0

ReadmeTrain == TrainWith({Str(t) : t \in ReadmeTexts})
ReadmePredict == PredictWith({Str(t) : t \in ReadmeQueries})
ReadmeGenerateText == GenerateTextWith({Str(t) : t \in ReadmeQueries})

NextReadme ==
  \/ ReadmeTrain
  \/ ReadmePredict
  \/ ReadmeGenerateText
  \/ Return

SpecReadme == InitReadme /\ [][NextReadme]_vars

(***************************************************************************)
(* Fine-tuning as a state machine: a model is constructed, taught through  *)
(* updateModel and adjusted through fineTune.                              *)
(***************************************************************************)
TuneConstructions == {NgramObject(1), NgramObject(2), Undefined}
UpdateTexts == {<<"a">>, <<"a", " ", "a", " ", "a">>, <<"a", " ", "b">>}
TuneTexts == {<<>>, <<"a">>, <<"a", " ", "a">>, <<"b", " ", "a">>}
Rates ==
  {Num(-Tenth), Num(0), Num(Twentieth), Num(Half), Num(One), Num(One + Tenth)}

InitFineTune ==
  /\ NoCounter
  /\ \E ngram \in TuneConstructions :
       /\ ngrams = NewLanguageModel(ngram, Omitted).ngrams
       /\ ngramMaxN = NewLanguageModel(ngram, Omitted).ngramMaxN
       /\ lmMaxN = NewLanguageModel(ngram, Omitted).lmMaxN
  /\ corpus = <<>>
  /\ vocabulary = {}
  /\ context = EmptyMap
  /\ disk = NoFile
  /\ saved = NoFile
  /\ call = Idle
  /\ ops = 0

\* model.updateModel(newText): this.train(newText)
LmUpdateModel ==
  \E text \in {Str(t) : t \in UpdateTexts} \cup NonStrings :
    /\ call = Idle
    /\ ops < MaxTrain
    /\ IF TokenizeThrows(text)
       THEN UNCHANGED <<ngrams, vocabulary, corpus>>
       ELSE /\ ngrams' = Train(ngrams, ngramMaxN, vocabulary, text.v).ngrams
            /\ vocabulary' = Train(ngrams, ngramMaxN, vocabulary, text.v).vocabulary
            /\ corpus' = Append(corpus, Tokenize(Join(Tokenize(text.v))))
    /\ call' = [op |-> "updateModel", text |-> text, threw |-> TokenizeThrows(text)]
    /\ ops' = ops + 1
    /\ UNCHANGED <<counterVars, ngramMaxN, lmMaxN, context, disk, saved>>

\* model.fineTune(text, learningRate), where the vocabulary learns the tokens
LmFineTune_LearnsWords ==
  \E text \in {Str(t) : t \in TuneTexts} \cup NonStrings, learningRate \in Rates :
    LET threw == RateThrows(learningRate) \/ TokenizeThrows(text)
    IN  /\ call = Idle
        /\ ops < MaxTrain + MaxTune
        /\ ngrams' = IF threw THEN ngrams
                      ELSE FineTune(ngrams, lmMaxN, text.v, learningRate.v)
        /\ vocabulary' = IF threw THEN vocabulary
                          ELSE vocabulary \cup Range(Tokenize(text.v))
        /\ call' = [op |-> "fineTune", text |-> text, rate |-> learningRate,
                    threw |-> threw]
        /\ ops' = ops + 1
        /\ UNCHANGED <<counterVars, ngramMaxN, corpus, lmMaxN, context, disk, saved>>

\* model.fineTune(text, learningRate), for a text of `texts`, a rate of `rates`
\* and at most `most` calls: the rate is tested first, then the text is
\* tokenized, then the table is adjusted
FineTuneWith(texts, rates, most) ==
  \E text \in texts, learningRate \in rates :
    LET threw == RateThrows(learningRate) \/ TokenizeThrows(text)
    IN  /\ call = Idle
        /\ ops < most
        /\ ngrams' = IF threw THEN ngrams
                      ELSE FineTune(ngrams, lmMaxN, text.v, learningRate.v)
        /\ call' = [op |-> "fineTune", text |-> text, rate |-> learningRate,
                    threw |-> threw]
        /\ ops' = ops + 1
        /\ UNCHANGED <<counterVars, ngramMaxN, corpus, lmVars>>

LmFineTune ==
  FineTuneWith({Str(t) : t \in TuneTexts} \cup NonStrings, Rates, MaxTrain + MaxTune)

NextFineTune ==
  \/ LmUpdateModel
  \/ LmFineTune
  \/ Return

SpecFineTune == InitFineTune /\ [][NextFineTune]_vars

(***************************************************************************)
(* Fine-tuning at one rate as a state machine: a model is constructed and  *)
(* taught, and every fineTune call of the run uses the same rate.          *)
(***************************************************************************)
BandRate == One - 4 * Hundredth
BandTexts == {<<"a", " ", "a">>, <<"a", " ", "a", " ", "a">>, <<"b", " ", "a">>}

BandFineTune ==
  FineTuneWith({Str(t) : t \in BandTexts}, {Num(BandRate)}, MaxTrain + MaxBand)

NextBand ==
  \/ LmUpdateModel
  \/ BandFineTune
  \/ Return

SpecBand == InitFineTune /\ [][NextBand]_vars

(***************************************************************************)
(* Clearing as a state machine: the model is constructed with or without a *)
(* table and with or without a maxN of its own, trained, adjusted, saved,  *)
(* loaded and cleared.                                                     *)
(***************************************************************************)
InitClear == InitWith(ConstructionMaxNs)

NextClear ==
  \/ LmTrain
  \/ LmFineTune
  \/ LmPredict
  \/ LmSaveModel
  \/ LmLoadModel
  \/ LmClearModel
  \/ Return

SpecClear == InitClear /\ [][NextClear]_vars

(***************************************************************************)
(* The measures as a state machine: a model is constructed, taught,        *)
(* adjusted and measured.                                                  *)
(***************************************************************************)
MeasureTexts ==
  {<<>>, <<"a">>, <<"A">>, <<"b", " ", "a">>, <<"a", " ", "a">>, <<"a", " ", " ", "b">>,
   <<"a", " ", "b", " ", "a">>}

\* model.attentionWeights(input)
LmAttentionWeights ==
  \E input \in {Str(t) : t \in MeasureTexts} \cup NonStrings :
    /\ call = Idle
    /\ call' = [op |-> "attentionWeights", text |-> input,
                threw |-> TokenizeThrows(input),
                result |-> IF TokenizeThrows(input) THEN <<>>
                           ELSE AttentionWeights(ngrams, lmMaxN, input.v)]
    /\ UNCHANGED <<counterVars, ngramVars, lmVars, ops>>

ProbabilityWords == {<<>>, <<"a">>, <<"b">>}

\* model.getProbability(word, context), for a context of `contexts`
GetProbabilityWith(contexts) ==
  \E word \in ProbabilityWords, ctx \in contexts :
    /\ call = Idle
    /\ call' = [op |-> "getProbability", word |-> word, text |-> ctx,
                threw |-> TokenizeThrows(ctx),
                result |-> IF TokenizeThrows(ctx) THEN Zero
                           ELSE GetProbability(ngrams, word, ctx.v)]
    /\ UNCHANGED <<counterVars, ngramVars, lmVars, ops>>

LmGetProbability == GetProbabilityWith({Str(t) : t \in MeasureTexts} \cup NonStrings)

MaxItems == 1      \* most items in a dataset handed to evaluate

Item(input, reference) == [input |-> input, reference |-> reference]
TestItems ==
  {Item(Str(<<"a", " ", "a">>), Str(<<"a", " ", "a">>)),
   Item(Str(<<"a", " ", "b">>), Str(<<"b">>)),
   Item(Str(<<"b">>), Str(<<"a", " ", "b">>)),
   Item(Str(<<"a", " ", "b", " ">>), Str(<<"b">>)),
   Item(Str(<<>>), Str(<<>>)),
   Item(Str(TargetWord), Str(TargetWord)),
   Item(Null, Str(<<"a">>))}
TestData == UNION {[1..k -> TestItems] : k \in 0..MaxItems}

\* model.evaluate(testData)
LmEvaluate ==
  \E testData \in TestData :
    /\ call = Idle
    /\ call' = [op |-> "evaluate", testData |-> testData,
                result |-> Evaluate(ngrams, ngramMaxN, lmMaxN, testData)]
    /\ UNCHANGED <<counterVars, ngramVars, lmVars, ops>>

\* the learning rates of the adjustments that precede the measurements
MeasureRates == {Num(Twentieth), Num(Half)}
MeasureFineTune ==
  FineTuneWith({Str(t) : t \in TuneTexts}, MeasureRates, MaxTrain + MaxTune)

NextMeasure ==
  \/ LmUpdateModel
  \/ MeasureFineTune
  \/ LmAttentionWeights
  \/ LmGetProbability
  \/ LmEvaluate
  \/ Return

SpecMeasure == InitFineTune /\ [][NextMeasure]_vars

(***************************************************************************)
(* Embeddings as a state machine: a model is constructed, trained on words *)
(* of which one is a part of another, and asked for embeddings.            *)
(***************************************************************************)
EmbedTexts ==
  {<<"a", " ", "a", "b">>, <<"a", "b", " ", "c", " ", "a">>, <<"b", " ", "a", " ", "b">>,
   <<"!", " ", "a">>}
EmbedWords == {<<>>, <<"a">>, <<"b">>, <<"a", "b">>}
EmbedDimensions == {Omitted, Num(1), Num(4)}

EmbedTrain == TrainWith({Str(t) : t \in EmbedTexts})

\* model.getEmbeddings(word, dimensions)
LmGetEmbeddings ==
  \E word \in EmbedWords, dimensions \in EmbedDimensions :
    /\ call = Idle
    /\ call' = [op |-> "getEmbeddings", word |-> word, dimensions |-> dimensions,
                threw |-> FALSE,
                result |-> GetEmbeddings(ngrams, lmMaxN, vocabulary, word, dimensions)]
    /\ UNCHANGED <<counterVars, ngramVars, lmVars, ops>>

NextEmbed ==
  \/ EmbedTrain
  \/ LmGetEmbeddings
  \/ Return

SpecEmbed == Init /\ [][NextEmbed]_vars

(***************************************************************************)
(* The queries as a state machine: a model is constructed, taught, given a *)
(* context and queried.                                                    *)
(***************************************************************************)
GivenContexts ==
  {EmptyMap, [topic |-> "x"], [topic |-> "y"], [topic |-> "x", style |-> "z"]}
QueryStrings == {Str(t) : t \in MeasureTexts} \cup NonStrings

\* model.setContext(context)
LmSetContext_ClearsVocabulary ==
  \E given \in GivenContexts :
    /\ call = Idle
    /\ context' = SetContext(context, given)
    /\ vocabulary' = {}
    /\ call' = [op |-> "setContext", given |-> given, threw |-> FALSE]
    /\ UNCHANGED <<counterVars, ngramVars, lmMaxN, disk, saved, ops>>
LmSetContext ==
  \E given \in GivenContexts :
    /\ call = Idle
    /\ context' = SetContext(context, given)
    /\ call' = [op |-> "setContext", given |-> given, threw |-> FALSE]
    /\ UNCHANGED <<counterVars, ngramVars, lmMaxN, vocabulary, disk, saved, ops>>

\* model.perplexity(text), for a text of `texts`
PerplexityWith(texts) ==
  \E text \in texts :
    /\ call = Idle
    /\ call' = [op |-> "perplexity", text |-> text, threw |-> TokenizeThrows(text),
                contexts |-> IF TokenizeThrows(text) THEN <<>>
                             ELSE PerplexityContexts(lmMaxN, text.v),
                result |-> IF TokenizeThrows(text) THEN <<>>
                           ELSE PerplexityProbabilities(ngrams, lmMaxN, text.v)]
    /\ UNCHANGED <<counterVars, ngramVars, lmVars, ops>>

LmPerplexity == PerplexityWith(QueryStrings)

\* model.explainPrediction(prefix)
LmExplainPrediction ==
  \E prefix \in QueryStrings :
    /\ call = Idle
    /\ call' = [op |-> "explainPrediction", text |-> prefix,
                threw |-> TokenizeThrows(prefix),
                result |-> IF TokenizeThrows(prefix) THEN <<>>
                           ELSE ExplainPrediction(ngrams, ngramMaxN, prefix.v)]
    /\ UNCHANGED <<counterVars, ngramVars, lmVars, ops>>

QueryPredict == PredictWith(QueryStrings)
QueryGenerateText == GenerateTextWith(QueryStrings)

NextQuery ==
  \/ LmUpdateModel
  \/ LmSetContext
  \/ QueryPredict
  \/ QueryGenerateText
  \/ LmGetProbability
  \/ LmPerplexity
  \/ LmEvaluate
  \/ LmGetEmbeddings
  \/ LmAttentionWeights
  \/ LmExplainPrediction
  \/ Return

SpecQuery == InitFineTune /\ [][NextQuery]_vars

(***************************************************************************)
(* Perplexity as a state machine: a model is constructed with or without a *)
(* table and with or without a maxN of its own, trained, and asked for     *)
(* probabilities and perplexities.                                         *)
(***************************************************************************)
EmptyContexts == {<<>>, <<" ">>, <<"!">>, <<"a">>}
PerplexityTexts ==
  {<<>>, <<"a">>, <<"a", " ", "b">>, <<"a", " ", "a", " ", "b">>,
   <<"a", " ", "a", " ", "b", " ", "a">>}
PerplexityTrainTexts ==
  {<<"a">>, <<"a", " ", "b">>, <<"a", " ", "a", " ", "b", " ", "a", " ", "b">>}

PerplexityTrain == TrainWith({Str(t) : t \in PerplexityTrainTexts})
ContextProbability == GetProbabilityWith({Str(t) : t \in EmptyContexts})
TextPerplexity == PerplexityWith({Str(t) : t \in PerplexityTexts} \cup NonStrings)

NextPerplexity ==
  \/ PerplexityTrain
  \/ ContextProbability
  \/ TextPerplexity
  \/ Return

SpecPerplexity == InitClear /\ [][NextPerplexity]_vars

(***************************************************************************)
(* Properties.                                                             *)
(***************************************************************************)
Max(S) == CHOOSE m \in S : \A k \in S : k <= m

\* C1: predictNextWord returns the next tokens of the counter stored under the
\* longest matching context: the largest n in 1..min(number of prefix tokens,
\* maxN) whose level holds the key made of the last n prefix tokens; it returns
\* the empty sequence when no level matches.
C1_LongestContextWins ==
  call.op = "predictNextWord" =>
    LET tokens == Tokenize(call.prefix)
        key(n) == Join(SubSeq(tokens, Len(tokens) - n + 1, Len(tokens)))
        hits == {n \in 1..Min(Len(tokens), ngramMaxN) : key(n) \in DOMAIN ngrams[n]}
    IN  IF hits = {} THEN call.result = <<>>
        ELSE call.result = Keys(MostCommon(ngrams[Max(hits)][key(Max(hits))], Omitted))

\* C1 witness: a two-token prefix matched at level 2 whose answer differs from
\* the one its last token alone would get at level 1.
C1_Witness ==
  /\ call.op = "predictNextWord"
  /\ ngramMaxN >= 2
  /\ LET tokens == Tokenize(call.prefix)
     IN  /\ Len(tokens) = 2
         /\ Join(tokens) \in DOMAIN ngrams[2]
         /\ tokens[2] \in DOMAIN ngrams[1]
         /\ call.result # Keys(MostCommon(ngrams[1][tokens[2]], Omitted))

\* the token after position i (from 0) of an n-token context of T, "" at the end
Follower(T, i, n) == IF i + n < Len(T) THEN T[i + n + 1] ELSE <<>>

\* occurrences in the corpus of context ctx followed by w
RECURSIVE PairCount(_, _, _)
PairCount(cs, ctx, w) ==
  IF cs = <<>> THEN 0
  ELSE Cardinality({i \in 0..(Len(Head(cs)) - Len(ctx)) :
                      /\ SubSeq(Head(cs), i + 1, i + Len(ctx)) = ctx
                      /\ Follower(Head(cs), i, Len(ctx)) = w})
         + PairCount(Tail(cs), ctx, w)

\* occurrences in the corpus of context ctx
RECURSIVE ContextCount(_, _)
ContextCount(cs, ctx) ==
  IF cs = <<>> THEN 0
  ELSE Cardinality({i \in 0..(Len(Head(cs)) - Len(ctx)) :
                      SubSeq(Head(cs), i + 1, i + Len(ctx)) = ctx})
         + ContextCount(Tail(cs), ctx)

\* C2: after updateModel on token sequences of non-empty, space-free tokens,
\* starting from an empty table: for every gram length n <= maxN and every
\* n-token context of a learnt sequence, the counter stored at level n under
\* the joined context totals the number of positions at which the context
\* occurs, and counts each next token (the empty string at the end of a
\* sequence) as often as it followed the context.
C2_CountsMatchOccurrences ==
  \A k \in 1..Len(corpus) : \A n \in 1..ngramMaxN : \A i \in 0..(Len(corpus[k]) - n) :
    LET ctx == SubSeq(corpus[k], i + 1, i + n)
    IN  /\ Join(ctx) \in DOMAIN ngrams[n]
        /\ Total(ngrams[n][Join(ctx)]) = One * ContextCount(corpus, ctx)
        /\ \A w \in Words \cup {<<>>} :
              Get(ngrams[n][Join(ctx)], w) = One * PairCount(corpus, ctx, w)

\* C2 witness: one sequence learnt into an empty table of at least two levels,
\* in which a one-token context occurs twice with two different next tokens.
C2_Witness ==
  /\ call.op = "updateModel"
  /\ Len(corpus) = 1
  /\ ngramMaxN >= 2
  /\ ngrams[2] # EmptyMap
  /\ \E key \in DOMAIN ngrams[1] :
       Len(ngrams[1][key]) = 2 /\ Total(ngrams[1][key]) = 2 * One

\* the model state saved by the last saveModel predicts as the live model does,
\* for every contiguous run of tokens of every text trained before the save
SamePredictions(before, afterNgrams, afterMaxN) ==
  \A k \in 1..Len(before.corpus) :
    \A i \in 1..Len(before.corpus[k]) : \A j \in i..Len(before.corpus[k]) :
      LET prefix == Join(SubSeq(before.corpus[k], i, j))
      IN  PredictNextWord(afterNgrams, afterMaxN, prefix)
            = PredictNextWord(before.ngrams, before.ngramMaxN, prefix)

\* C3: loadModel after saveModel gives a model with the vocabulary size it had
\* at the save and with the same predictions for every trained prefix.
C3_SaveLoadRoundTrip ==
  (call.op = "loadModel" /\ ~call.threw) =>
    /\ Cardinality(vocabulary) = Cardinality(saved.vocabulary)
    /\ SamePredictions(saved, ngrams, ngramMaxN)

\* C4: every item stored in the counter has a count strictly greater than 0.
C4_StoredCountsPositive ==
  \A i \in 1..Len(counter) : counter[i].count > 0

\* C5: increment and decrement raise exactly when the amount is not a number
\* or is negative, a raising call leaves the counter as it was, and an accepted
\* increment adds the amount to the item's count and touches no other item.
C5_InvalidAmountRaises ==
  [][call'.op \in {"increment", "decrement"} =>
       /\ call'.threw = (call'.n.t # "number" \/ call'.n.v < 0)
       /\ call'.threw => counter' = counter
       /\ (call'.op = "increment" /\ ~call'.threw) =>
            \A item \in Items :
              Get(counter', item) =
                Get(counter, item) + (IF item = call'.item THEN call'.n.v ELSE 0)]_vars

\* C5 witness: a negative amount was refused on a counter that holds items.
C5_Witness ==
  /\ call.op \in {"increment", "decrement"}
  /\ call.threw
  /\ call.n.t = "number"
  /\ counter # <<>>

\* the test corpus of the n-gram tests and what the table trained on it with
\* maxN = 3 predicts after "hello world"
Hello == <<"h", "e", "l", "l", "o">>
World == <<"w", "o", "r", "l", "d">>
How == <<"h", "o", "w">>
Are == <<"a", "r", "e">>
You == <<"y", "o", "u">>
Again == <<"a", "g", "a", "i", "n">>
HelloWorldCorpus == Join(<<Hello, World, How, Are, You, Hello, World, Again>>)
HelloWorldPrediction ==
  LET model == NewLanguageModel(NgramObject(3), Omitted)
      trained == Train(model.ngrams, model.ngramMaxN, {}, HelloWorldCorpus)
  IN  PredictNextWord(trained.ngrams, model.ngramMaxN, Join(<<Hello, World>>))

\* result is the first `limit` entries of c ranked by count, larger counts
\* first, entries of equal count in the order their items have in `order`
RankedBy(result, c, order, limit) ==
  LET entries == Range(c)
      pos(item) == CHOOSE i \in 1..Len(order) : order[i] = item
      before(e, f) ==
        e.count > f.count \/ (e.count = f.count /\ pos(e.item) < pos(f.item))
      rank(e) == Cardinality({f \in entries : before(f, e)})
      want == IF limit.t = "undefined" THEN Len(c) ELSE Min(limit.v, Len(c))
  IN  /\ Len(result) = want
      /\ \A i \in 1..Len(result) : result[i] \in entries /\ rank(result[i]) = i - 1

\* C6 as claimed: mostCommon(limit) returns the stored pairs by count
\* descending, items of equal count in the order in which the counter first
\* saw them, cut to the first limit pairs.
C6_TiesInFirstSeenOrder ==
  call.op = "mostCommon" => RankedBy(call.result, counter, firstSeen, call.limit)

\* C6 amended: mostCommon(limit) returns the stored pairs by count descending,
\* items of equal count in the counter's current iteration order (an item that
\* was removed and added again counts from its latest insertion), cut to the
\* first limit pairs for a limit >= 0; and the table trained on the test
\* corpus with maxN = 3 predicts "how", "again" after "hello world".
C6_TiesInInsertionOrder ==
  /\ call.op = "mostCommon" => RankedBy(call.result, counter, Keys(counter), call.limit)
  /\ HelloWorldPrediction = <<How, Again>>

\* C6 witness: mostCommon ranked two items of equal count of which the one
\* seen first had been removed and added again.
C6_Witness ==
  /\ call.op = "mostCommon"
  /\ Len(call.result) = 2
  /\ call.result[1].count = call.result[2].count
  /\ Keys(counter) # firstSeen

\* C7: elements() never fails and returns each stored item floor(count) times.
C7_ElementsFloorsCounts ==
  call.op = "elements" =>
    /\ ~call.threw
    /\ \A item \in Items : CountIn(call.result, item) = Get(counter, item) \div One
    /\ Len(call.result) = Total([i \in 1..Len(counter) |->
                                  Entry(counter[i].item, counter[i].count \div One)])

\* C8: construction succeeds for every integer maxN and leaves a table of
\* maxN clamped into 1..5 levels, each empty.
C8_MaxNClamped ==
  /\ ngramMaxN \in 1..MaxNCap
  /\ Len(ngrams) = ngramMaxN
  /\ call.op = "Ngram" =>
       /\ ~call.threw
       /\ \A n \in 1..Len(ngrams) : ngrams[n] = EmptyMap
       /\ call.arg.t = "number" =>
            ngramMaxN = (IF call.arg.v < 1 THEN 1 ELSE Min(call.arg.v, MaxNCap))

\* C9: train, predict and generateText raise whenever their text argument is
\* not a string, whatever the other argument, and leave the table, the
\* vocabulary and the context as they were.
C9_NonStringRaises ==
  [][(call'.op \in {"train", "predict", "generateText"} /\ call'.text.t # "string") =>
       /\ call'.threw
       /\ ngrams' = ngrams
       /\ vocabulary' = vocabulary
       /\ context' = context]_vars

\* the text generated after i appended words
RECURSIVE TextAfter(_, _, _)
TextAfter(start, words, i) ==
  IF i = 0 THEN start ELSE TextAfter(start, words, i - 1) \o <<" ">> \o words[i]

\* the words generateText appended to `start` to make `text`
Appended(start, text) == Tail(SplitSpace(SubSeq(text, Len(start) + 1, Len(text))))

\* text is start followed by " " and a word, once for each appended word
StartsVerbatim(start, text) ==
  /\ Len(text) >= Len(start)
  /\ text = TextAfter(start, Appended(start, text), Len(Appended(start, text)))

\* the prefix generateText predicts from after i appended words: start itself,
\* then the last maxN single-space-separated pieces of the text so far (all of
\* them when the model's maxN is undefined or 0)
PrefixAfter(start, words, i) ==
  IF i = 0 THEN start
  ELSE Join(SliceLast(SplitSpace(TextAfter(start, words, i)), lmMaxN))

\* C10 as claimed: generateText returns start followed by k <= length words, each
\* the top-1 prediction for the last maxN tokens of the text so far, and k <
\* length only if the prediction for the text so far was the empty sequence.
C10_StopsOnlyOnEmptyPrediction ==
  (call.op = "generateText" /\ call.text.t = "string") =>
    /\ ~call.threw
    /\ call.result.t = "string"
    /\ StartsVerbatim(call.text.v, call.result.v)
    /\ LET start == call.text.v
           words == Appended(start, call.result.v)
           length == Default(call.n, DefaultLength).v
           predicted(i) == PredictNextWord(ngrams, ngramMaxN, TextAfter(start, words, i))
       IN  /\ Len(words) <= length
           /\ \A i \in 0..(Len(words) - 1) :
                predicted(i) # <<>> /\ words[i + 1] = predicted(i)[1]
           /\ Len(words) < length => predicted(Len(words)) = <<>>

\* C10 amended: generateText returns start followed by k <= length words, each
\* the non-empty top-1 prediction for the current prefix (start, then the last
\* maxN single-space-separated pieces of the text so far), and k < length only
\* if the top-1 prediction for the current prefix was missing or the empty
\* string, the end-of-sequence mark.
C10_GenerateText ==
  (call.op = "generateText" /\ call.text.t = "string") =>
    /\ ~call.threw
    /\ call.result.t = "string"
    /\ StartsVerbatim(call.text.v, call.result.v)
    /\ LET start == call.text.v
           words == Appended(start, call.result.v)
           length == Default(call.n, DefaultLength).v
           predicted(i) == PredictNextWord(ngrams, ngramMaxN, PrefixAfter(start, words, i))
       IN  /\ Len(words) <= length
           /\ \A i \in 0..(Len(words) - 1) :
                /\ predicted(i) # <<>>
                /\ predicted(i)[1] # <<>>
                /\ words[i + 1] = predicted(i)[1]
           /\ Len(words) < length =>
                (predicted(Len(words)) = <<>> \/ predicted(Len(words))[1] = <<>>)

\* C10 witness: a word was appended and generation then stopped before length
\* although the prediction list was not empty.
C10_Witness ==
  /\ call.op = "generateText"
  /\ call.text.t = "string"
  /\ LET words == Appended(call.text.v, call.result.v)
     IN  /\ Len(words) >= 1
         /\ Len(words) < Default(call.n, DefaultLength).v
         /\ PredictNextWord(ngrams, ngramMaxN,
                            PrefixAfter(call.text.v, words, Len(words))) # <<>>

\* the state right after `new LanguageModel()` was trained once with the text of
\* the README: no table was handed in, so the model's own maxN is undefined
ReadmeTrained ==
  /\ lmMaxN = Undefined
  /\ ngramMaxN = DefaultMaxN
  /\ ngrams = Train(NewNgram(Omitted).ngrams, DefaultMaxN, {}, ReadmeText).ngrams

ReadmeGenerateCall ==
  /\ ReadmeTrained
  /\ call.op = "generateText"
  /\ call.text = Str(ReadmeStart)
  /\ call.n = Num(3)

ReadmePredictCall ==
  /\ ReadmeTrained
  /\ call.op = "predict"
  /\ call.text = Str(ReadmeStart)
  /\ call.n = Num(1)

C12_InvalidRateRaises ==
  [][call'.op = "fineTune" =>
       /\ (call'.rate.v <= 0 \/ call'.rate.v > One) => (call'.threw /\ ngrams' = ngrams)
       /\ (call'.rate.v > 0 /\ call'.rate.v <= One /\ call'.text.t = "string")
            => ~call'.threw]_vars

\* C12 witness: fineTune with rate 0 was refused on a trained model.
C12_Witness ==
  /\ call.op = "fineTune"
  /\ call.rate = Num(0)
  /\ call.threw
  /\ corpus # <<>>

\* C13: every (context, next token) count stored in the table is at least the
\* floor 0.1, after any sequence of train and fineTune calls.
C13_CountsAtLeastFloor ==
  \A n \in 1..Len(ngrams) : \A key \in DOMAIN ngrams[n] :
    \A i \in 1..Len(ngrams[n][key]) : ngrams[n][key][i].count >= Tenth

\* the (context key, next token) pairs of gram length n that occur in tokens T
PairsIn(T, n) ==
  {<<Join(SubSeq(T, i + 1, i + n)), Follower(T, i, n)>> : i \in 0..(Len(T) - n)}

\* the count the claim expects of a pair of count c met once by fineTune
Moved(c, r, maxN) ==
  LET to == IF c > maxN * One THEN c - r ELSE c + r
  IN  IF to < Tenth THEN Tenth ELSE to

\* C20: an accepted fineTune moves the count c of an existing pair that occurs
\* exactly once at gram length n in the text to max(0.1, c - r) if c > maxN and
\* to max(0.1, c + r) otherwise, and keeps the count of every pair that does
\* not occur in the text.
C20_FineTuneMovesCounts ==
  [][(call'.op = "fineTune" /\ ~call'.threw) =>
       LET T == Tokenize(call'.text.v)
           r == call'.rate.v
       IN  \A n \in 1..ngramMaxN : \A key \in DOMAIN ngrams[n] :
             \A e \in Range(ngrams[n][key]) :
               /\ (<<key, e.item>> \notin PairsIn(T, n)) =>
                    Get(ngrams'[n][key], e.item) = e.count
               /\ (Cardinality({i \in 0..(Len(T) - n) :
                                  /\ Join(SubSeq(T, i + 1, i + n)) = key
                                  /\ Follower(T, i, n) = e.item}) = 1) =>
                    Get(ngrams'[n][key], e.item) = Moved(e.count, r, ngramMaxN)]_vars

\* C14: attentionWeights(input).weights has one entry per token of the input:
\* none for zero tokens, the single entry 1 for one token, and for two or more
\* tokens entries that are all strictly positive and sum to 1.
C14_AttentionWeightsNormalised ==
  (call.op = "attentionWeights" /\ call.text.t = "string") =>
    LET tokens == Tokenize(call.text.v)
        weights == call.result
    IN  /\ ~call.threw
        /\ Len(weights) = Len(tokens)
        /\ Len(tokens) = 1 => (weights[1].den > 0 /\ weights[1].num = weights[1].den)
        /\ Len(tokens) >= 2 =>
             /\ \A i \in 1..Len(weights) :
                  /\ weights[i].den > 0
                  /\ weights[i].num > 0
                  /\ weights[i].den = weights[1].den
             /\ SumSeq([i \in 1..Len(weights) |-> weights[i].num]) = weights[1].den

\* C14 witness: the weights of a three-token input on a trained model, with a
\* token the table knows and weights that differ.
C14_Witness ==
  /\ call.op = "attentionWeights"
  /\ ~call.threw
  /\ Len(call.result) = 3
  /\ call.result[1].num # call.result[2].num
  /\ corpus # <<>>

\* C15: getProbability(word, context) on a string context returns count(word)
\* divided by the total of the counter stored at level (number of tokens of the
\* context) - 1 under the context as passed, when that counter exists and its
\* total is positive, and 0 otherwise, so 0 for a context of more tokens than
\* the table has levels; the result is in [0, 1] and the call does not raise.
C15_GetProbability ==
  (call.op = "getProbability" /\ call.text.t = "string") =>
    LET ctx == call.text.v
        n == Len(Tokenize(ctx))
        stored == n \in 1..Len(ngrams) /\ ctx \in DOMAIN ngrams[n]
    IN  /\ ~call.threw
        /\ call.result.den > 0
        /\ 0 <= call.result.num /\ call.result.num <= call.result.den
        /\ (stored /\ Total(ngrams[n][ctx]) > 0) =>
             /\ call.result.num = Get(ngrams[n][ctx], call.word)
             /\ call.result.den = Total(ngrams[n][ctx])
        /\ ~(stored /\ Total(ngrams[n][ctx]) > 0) => call.result.num = 0
        /\ n > Len(ngrams) => call.result.num = 0

\* C15 witness: a probability strictly between 0 and 1.
C15_Witness ==
  /\ call.op = "getProbability"
  /\ ~call.threw
  /\ 0 < call.result.num /\ call.result.num < call.result.den

\* C16: evaluate([]) does not raise, returns averagePerplexity,
\* averageBLEUScore and accuracy as NaN and f1Score exactly 0, and leaves the
\* model unchanged.
C16_EvaluateEmpty ==
  [][(call' # call /\ call'.op = "evaluate" /\ call'.testData = <<>>) =>
       /\ ~call'.result.threw
       /\ call'.result.averagePerplexityIsNaN
       /\ IsNaN(call'.result.averageBLEUScore)
       /\ IsNaN(call'.result.accuracy)
       /\ call'.result.f1Score = Zero
       /\ UNCHANGED <<ngramVars, lmVars>>]_vars

\* C16 witness: evaluate([]) has returned on a model whose table is not empty.
C16_Witness ==
  /\ call.op = "evaluate"
  /\ call.testData = <<>>
  /\ \E n \in 1..Len(ngrams) : DOMAIN ngrams[n] # {}

\* C17: for every item whose input has a token the unigram precision of
\* evaluate lies in [0, 1], is 1 when input and reference tokenize to the same
\* sequence, and averageBLEUScore of such a dataset lies in [0, 1].
C17_BleuPrecisionInUnitInterval ==
  (/\ call.op = "evaluate"
   /\ call.testData # <<>>
   /\ ~call.result.threw
   /\ \A k \in 1..Len(call.testData) : Tokenize(call.testData[k].input.v) # <<>>) =>
    /\ \A k \in 1..Len(call.testData) :
         /\ call.result.precisions[k].den > 0
         /\ call.result.precisions[k].num <= call.result.precisions[k].den
         /\ Tokenize(call.testData[k].input.v) = Tokenize(call.testData[k].reference.v) =>
              call.result.precisions[k].num = call.result.precisions[k].den
    /\ call.result.averageBLEUScore.den > 0
    /\ call.result.averageBLEUScore.num <= call.result.averageBLEUScore.den

\* the table is as clearModel should leave it: `levels` levels, all empty, and
\* no prediction for any prefix
Cleared(levels) ==
  /\ Len(ngrams') = levels
  /\ \A n \in 1..Len(ngrams') : DOMAIN ngrams'[n] = {}
  /\ vocabulary' = {}
  /\ context' = EmptyMap
  /\ \A prefix \in QueryTexts :
       Predict(ngrams', ngramMaxN', prefix, Num(MaxPredictions)) = <<>>

\* C18: from every reachable state clearModel leaves a table with the same
\* number of levels as before, every level empty, an empty vocabulary and an
\* empty context, and prediction for any prefix then returns the empty sequence.
C18_ClearModelKeepsLevels ==
  [][(call' # call /\ call'.op = "clearModel") => Cleared(Len(ngrams))]_vars

\* C19: after train(text) on a string the vocabulary is the previous vocabulary
\* united with the tokens of tokenize(text), the table has changed exactly as
\* updateModel(tokenize(text)) changes it, and every word added to the
\* vocabulary is a unigram context key of the table.
C19_TrainLearnsItsTokens ==
  [][(call' # call /\ call'.op = "train" /\ call'.text.t = "string") =>
       LET tokens == Tokenize(call'.text.v)
       IN  /\ vocabulary' = vocabulary \cup Range(tokens)
           /\ ngrams' = UpdateModel(ngrams, ngramMaxN, tokens)
           /\ \A w \in vocabulary' \ vocabulary : w \in DOMAIN ngrams'[1]]_vars

\* the number of positions of tokens T at which the pair (key, next) of gram
\* length n occurs
Occurrences(T, n, key, next) ==
  Cardinality({i \in 0..(Len(T) - n) :
                 Join(SubSeq(T, i + 1, i + n)) = key /\ Follower(T, i, n) = next})

\* the pair (key, next) is stored at gram length n of table ngs
Stored(ngs, n, key, next) == key \in DOMAIN ngs[n] /\ Has(ngs[n][key], next)

\* C21: for a valid rate r, a pair that is absent from the table and occurs
\* exactly once in the text at its gram length exists after fineTune with count
\* exactly r, whether or not its context key was present before.
C21_NewPairGetsRate ==
  [][(call' # call /\ call'.op = "fineTune" /\ ~call'.threw) =>
       LET T == Tokenize(call'.text.v)
       IN  \A n \in 1..ngramMaxN : \A pair \in PairsIn(T, n) :
             (/\ ~Stored(ngrams, n, pair[1], pair[2])
              /\ Occurrences(T, n, pair[1], pair[2]) = 1) =>
               /\ Stored(ngrams', n, pair[1], pair[2])
               /\ Get(ngrams'[n][pair[1]], pair[2]) = call'.rate.v]_vars

\* C22: evaluate counts an item as a correct prediction exactly when the top-1
\* prediction for the tokens of the input without the last one equals the last
\* token of the reference; accuracy is the number of such items divided by the
\* size of the dataset, in [0, 1] for a dataset that is not empty.
C22_AccuracyFromTokens ==
  (call.op = "evaluate" /\ ~call.result.threw) =>
    LET testData == call.testData
        tokens(k) == Tokenize(testData[k].input.v)
        shortened(k) == Join(SubSeq(tokens(k), 1, Len(tokens(k)) - 1))
        expected(k) ==
          FirstOf(Predict(ngrams, ngramMaxN, shortened(k), Num(1)))
            = LastOf(Tokenize(testData[k].reference.v))
    IN  /\ \A k \in 1..Len(testData) : call.result.correct[k] = expected(k)
        /\ call.result.accuracy
             = Frac(Cardinality({k \in 1..Len(testData) : expected(k)}), Len(testData))
        /\ testData # <<>> =>
             /\ call.result.accuracy.den > 0
             /\ call.result.accuracy.num <= call.result.accuracy.den

\* C23: for a word of the vocabulary getEmbeddings returns a vector of exactly
\* dims entries; when something was accumulated it is the accumulated vector
\* divided by its norm, where entry p holds the totals of the contexts of
\* which the word is a component token and for which
\* ((n - 1) * 3 + (index of the word among the tokens) mod 3) mod dims = p.
C23_EmbeddingFromComponentTokens ==
  (call.op = "getEmbeddings" /\ call.word \in vocabulary) =>
    LET dims == Default(call.dimensions, DefaultDimensions).v
        top == IF lmMaxN.t = "number" THEN lmMaxN.v ELSE 0
        claimed(n, key) == ((n - 1) * 3 + (IndexOf(SplitSpace(key), call.word) % 3)) % dims
        components(n, p) == {key \in DOMAIN ngrams[n] :
                               /\ call.word \in Range(SplitSpace(key))
                               /\ claimed(n, key) = p}
        expected(p) ==
          SumOver([n \in 1..top |->
                     SumOver([key \in components(n, p) |-> Total(ngrams[n][key])])])
    IN  /\ call.result.length = dims
        /\ call.result.kind = "unit" =>
             \A p \in 0..(dims - 1) : call.result.direction[p + 1] = expected(p)

\* C24: in every reachable state the model's own maxN is defined and equals
\* the number of levels of the table the model owns.
C24_OwnMaxNIsTableLevels ==
  lmMaxN.t = "number" /\ lmMaxN.v = Len(ngrams)

\* the operations that only read the model
Queries ==
  {"predict", "generateText", "getProbability", "perplexity", "evaluate", "getEmbeddings",
   "attentionWeights", "explainPrediction"}

C26_FineTuneChangesOnlyTheTable ==
  [][(call' # call /\ call'.op = "fineTune") =>
       /\ vocabulary' = vocabulary
       /\ context' = context
       /\ lmMaxN' = lmMaxN
       /\ (call'.text.t = "string" /\ Tokenize(call'.text.v) = <<>>) => ngrams' = ngrams]_vars

\* C26 witness: fineTune has stored a context made of a word that is not in
\* the vocabulary.
C26_Witness ==
  /\ call.op = "fineTune"
  /\ ~call.threw
  /\ \E key \in DOMAIN ngrams[1] : key \notin vocabulary

C28_TokenizeIdempotent ==
  call.op = "tokenize" =>
    /\ \A i \in 1..Len(call.result) :
         /\ call.result[i] # <<>>
         /\ \A j \in 1..Len(call.result[i]) : call.result[i][j] \notin Whitespace
    /\ Tokenize(Join(call.result)) = call.result

\* the band (maxN - r, maxN + r] of counts around maxN
InBand(c, r, maxN) == c > maxN * One - r /\ c <= maxN * One + r

\* the larger of two numbers
Larger(a, b) == IF a > b THEN a ELSE b

\* what a fineTune call of rate r does to the count c of every pair stored
\* before it: `each(n, key, next, c, d)` holds of the count d after the call
EveryStoredPair(each(_, _, _, _, _)) ==
  (call' # call /\ call'.op = "fineTune" /\ ~call'.threw) =>
    \A n \in 1..ngramMaxN : \A key \in DOMAIN ngrams[n] :
      \A e \in Range(ngrams[n][key]) :
        each(n, key, e.item, e.count, Get(ngrams'[n][key], e.item))

\* C29: under fineTune calls of one rate r a count in the band
\* (maxN - r, maxN + r] stays in the band, a count <= maxN is never decreased
\* and a count > maxN is never increased, so no count rises above the larger
\* of its value and maxN + r.
C29_BandStable ==
  [][LET r == call'.rate.v
         each(n, key, next, c, d) ==
           /\ InBand(c, r, ngramMaxN) => InBand(d, r, ngramMaxN)
           /\ c <= ngramMaxN * One => d >= c
           /\ c > ngramMaxN * One => d <= c
           /\ d <= Larger(c, ngramMaxN * One + r)
     IN  EveryStoredPair(each)]_vars

\* C29, amended: as C29, but a count > maxN is never increased by a call in
\* whose text its pair occurs at most once, and never raised above the larger
\* of its value and 0.1 + r by any call.
C29_BandStableUpToFloor ==
  [][LET r == call'.rate.v
         T == Tokenize(call'.text.v)
         each(n, key, next, c, d) ==
           /\ InBand(c, r, ngramMaxN) => InBand(d, r, ngramMaxN)
           /\ c <= ngramMaxN * One => d >= c
           /\ (c > ngramMaxN * One /\ Occurrences(T, n, key, next) <= 1) => d <= c
           /\ c > ngramMaxN * One => d <= Larger(c, Tenth + r)
           /\ d <= Larger(c, ngramMaxN * One + r)
     IN  EveryStoredPair(each)]_vars

\* C29 witness: a count stands at 0.1 + r after a fineTune call: it was above
\* maxN, fell below the floor, was lifted to 0.1 and incremented.
C29_Witness ==
  /\ call.op = "fineTune"
  /\ ~call.threw
  /\ \E n \in 1..Len(ngrams) : \E key \in DOMAIN ngrams[n] :
       \E e \in Range(ngrams[n][key]) : e.count = Tenth + call.rate.v

\* C30: getProbability is 0 for every word when the context tokenizes to zero
\* tokens; perplexity therefore scores the first token of a text with the
\* substitute for probability 0, and token i (from 0) in the context of the
\* min(i, maxN - 1) tokens before it, maxN being the levels of the table.
C30_PerplexityContexts ==
  /\ (call.op = "getProbability" /\ ~call.threw /\ Tokenize(call.text.v) = <<>>) =>
       call.result = Zero
  /\ (call.op = "perplexity" /\ ~call.threw) =>
       LET tokens == Tokenize(call.text.v)
       IN  /\ Len(call.contexts) = Len(tokens)
           /\ Len(call.result) = Len(tokens)
           /\ tokens # <<>> => call.result[1] = Zero
           /\ \A i \in 0..(Len(tokens) - 1) :
                call.contexts[i + 1]
                  = Join(SubSeq(tokens, i - Min(i, Len(ngrams) - 1) + 1, i))

====
